---- MODULE Spec2Model ----
(***************************************************************************)
(* The background hub of the OmniHelper browser extension                  *)
(* (src/unnamed/part_000): two in-memory collections of scraped            *)
(* identifiers, their durable copy in chrome.storage.local, the message    *)
(* listener that serves the content script and the popup, and the          *)
(* fire-and-forget auto-reply POST.                                        *)
(*                                                                         *)
(* JavaScript values are modelled as follows.  undefined is the string     *)
(* Undefined; reading a field an object does not carry yields Undefined,   *)
(* so a message's data object always has the three fields the listener     *)
(* reads.  An optional object (request.data, a key of the storage area)    *)
(* is a flag plus the value, because an array and undefined are not        *)
(* comparable values here.  A message is an object or null: isNull tells   *)
(* which, and the fields of a null message are never read.                 *)
(***************************************************************************)
EXTENDS Integers, Sequences, FiniteSets, TLC

VARIABLES
    appealIds,          \* part_000:31  let appealIds = []
    dialogIds,          \* part_000:32  let dialogIds = []
    storage,            \* chrome.storage.local: the keys appealIds, dialogIds
    storageOps,         \* storage calls issued and not yet completed, in issue order
    posts,              \* the fetch() calls of sendAutoResponse, with their fate
    clock,              \* Date.now(); one tick per message delivered
    starts,             \* how often the worker script has been started again
    lastRequest,        \* the message this worker handled last
    lastResponse,       \* what sendResponse was called with for it
    afterClear,         \* history: the message handled before lastRequest was clearData
    accepted,           \* history: dialogIds of the incomingMessageDetected answered success
    expectedAppeals,    \* history: first accepted saveAppealId per id since the last clearData
    expectedDialogs,    \* history: first accepted saveDialogId per id since the last clearData
    persistedAtStart,   \* history: what storage held when the worker last started
    startedAt,          \* history: the clock when the worker last started
    clearedSinceStart,  \* history: a clearData was handled since the worker last started
    failedWrites,       \* history: the records whose write failed, since the last
                        \* start and the last clearData, and a mark for earlier ones
    ready,              \* history: the callback of the load has run since the last start
    fetched,            \* scanner: the response the page's fetch() returned last
    analysis,           \* scanner: what the classification rule returned for it
    outbox,             \* scanner: the messages the scanner sent for it
    cache,              \* part_003:202  SmartTextCache.cache: its keys
    accessTimes,        \* part_003:204  SmartTextCache.accessTimes, in insertion order
    preloading,         \* the keys whose processor promise of preload is pending
    now,                \* Date.now() as the text cache reads it
    cacheOp,            \* history: the call of the text cache made last
    scene,              \* part_005:25  the scene prop of useOptimizedTextRenderer
    state,              \* part_005:42  the hook's state
    animationRef,       \* part_005:51  animationRef.current
    renderer,           \* part_003:322-327  activeAnimations, pendingUpdates, batchUpdateTimer
    timers,             \* the setTimeout callbacks of the animation chains not yet run
    loadGen,            \* history: how many times loadScene has run
    skipped,            \* history: skipAnimation took effect since the last loadScene
    ran,                \* history: the callback or call that ran last
    delivered           \* history: the lines whose final state onUpdate was called with

vars == <<appealIds, dialogIds, storage, storageOps, posts, clock, starts,
          lastRequest, lastResponse, afterClear, accepted, expectedAppeals,
          expectedDialogs, persistedAtStart, startedAt, clearedSinceStart,
          failedWrites, ready, fetched, analysis, outbox,
          cache, accessTimes, preloading, now, cacheOp,
          scene, state, animationRef, renderer, timers, loadGen, skipped, ran,
          delivered>>

scanner == <<fetched, analysis, outbox>>

textCache == <<cache, accessTimes, preloading, now, cacheOp>>

\* the state of the story reader's text system (part_003, part_005)
reader == <<scene, state, animationRef, renderer, timers, loadGen, skipped, ran,
            delivered>>

story == <<textCache, reader>>

coordinator == <<appealIds, dialogIds, storage, storageOps, posts>>

----------------------------------------------------------------------------
(* Bounds of the model *)

\* messages delivered plus restarts of the worker in one behaviour
MaxEvents == 3

----------------------------------------------------------------------------
(* Values *)

Undefined == "undefined"

Null == "null"

\* what a sender can put in a message as an id: an id, the empty string, no field
AppealIdValues == {"123", "", Undefined}

DialogIdValues == {"55", "", Undefined}

Urls == {"https://x", "https://y"}

\* JavaScript truthiness of a string, undefined or null
Truthy(v) == v \notin {Undefined, Null, ""}

\* a || b
Or(a, b) == IF Truthy(a) THEN a ELSE b

\* the fixed reply text of part_000:109, in Latin letters
AUTO_RESPONSE_TEXT == "Dobryj den! Zapros prinyat v rabotu."

AUTO_RESPONSE_TEMPLATE_ID == 5103

AUTO_RESPONSE_ENDPOINT == "https://omnichat.rt.ru/core/messages/send-agent-message"

NoFields == [appealId |-> Undefined, dialogId |-> Undefined, url |-> Undefined]

NoRequest == [isNull |-> FALSE, action |-> "none", hasData |-> FALSE, data |-> NoFields]

NoResponse == [success |-> FALSE, error |-> "no response", data |-> <<>>]

\* new Date().toISOString(): the time, rendered as text
toISOString(t) == <<"iso", t>>

Absent == [present |-> FALSE, value |-> <<>>]

Stored(value) == [present |-> TRUE, value |-> value]

GetOp == [op |-> "get", key |-> "appealIds,dialogIds", value |-> <<>>]

SetOp(key, value) == [op |-> "set", key |-> key, value |-> value]

RemoveOp == [op |-> "remove", key |-> "appealIds,dialogIds", value |-> <<>>]

----------------------------------------------------------------------------
(* The content script: the responder and the scanner's response interception.
   A string is the sequence of its pieces, so that includes() is computed.
   A url is its origin, path and query; a url that is undefined has none.
   A response body is what JSON.parse returned: null, a primitive, or an
   object with the fields the scripts read; a primitive has no fields. *)

NoUrl == [defined |-> FALSE, origin |-> <<>>, path |-> <<>>, query |-> <<>>]

OmnichatOrigin == <<"https://", "omnichat.rt.ru">>

\* the path of AUTO_RESPONSE_ENDPOINT
EndpointPath == <<"/core/messages/", "send-agent-message">>

FetchOrigins == {<<>>, OmnichatOrigin, <<"https://", "example.org">>}

FetchPaths ==
    {EndpointPath,
     <<"/core/messages/", "list">>,
     <<"/core/messages/", "send-agent-message", "-templates">>}

FetchQueries ==
    {<<>>,
     <<"?", "dialogId", "=", "7">>,
     <<"?", "appealId", "=", "123">>,
     <<"?", "from", "=", "omnichat.rt.ru">>}

FetchUrls ==
    {[defined |-> TRUE, origin |-> o, path |-> p, query |-> q] :
        o \in FetchOrigins, p \in FetchPaths, q \in FetchQueries} \cup {NoUrl}

\* url.toString()
urlToString(url) == url.origin \o url.path \o url.query

\* String.prototype.includes
includes(str, piece) == \E i \in DOMAIN str : str[i] = piece

\* new URL(url, window.location.origin).searchParams.get(name)
searchParamsGet(url, name) ==
    LET q == url.query
        at == {i \in 2..(Len(q) - 2) :
                  q[i - 1] \in {"?", "&"} /\ q[i] = name /\ q[i + 1] = "="}
    IN  IF at = {} THEN Null ELSE q[(CHOOSE i \in at : \A j \in at : i <= j) + 2]

\* options.body of a fetch() call: none, a text that is not JSON, the text
\* null, or an object (or its JSON text) with the fields the scanner reads
NoBody ==
    [kind |-> "none", dialogId |-> Undefined, dialog_id |-> Undefined,
     appealId |-> Undefined, appeal_id |-> Undefined]

RequestBodies ==
    {NoBody, [NoBody EXCEPT !.kind = "invalid"], [NoBody EXCEPT !.kind = "null"]}
    \cup {[kind |-> "object", dialogId |-> d, dialog_id |-> e,
            appealId |-> a, appeal_id |-> b] :
              d \in {Undefined, "9"}, e \in {Undefined, "8"},
              a \in {Undefined, "321"}, b \in {Undefined, "654"}}

\* fetch(url) is called without a second argument
NoOptions == [present |-> FALSE, method |-> Undefined, body |-> NoBody]

FetchMethods == {Undefined, "GET", "POST", "PUT", "DELETE"}

FetchOptions ==
    {[present |-> TRUE, method |-> m, body |-> b] :
        m \in FetchMethods, b \in RequestBodies}

NoMessage == [kind |-> "undefined", text |-> Undefined, author |-> Undefined]

NullBody ==
    [kind |-> "null", text |-> Undefined, author |-> Undefined,
     dialogId |-> Undefined, dialog_id |-> Undefined, message |-> NoMessage]

\* a JSON number, string or boolean
PrimitiveBody == [NullBody EXCEPT !.kind = "primitive"]

\* responseText is not JSON: JSON.parse throws
InvalidBody == [NullBody EXCEPT !.kind = "invalid"]

MessageValues ==
    {NoMessage, [NoMessage EXCEPT !.kind = "null"], [NoMessage EXCEPT !.kind = "primitive"]}
    \cup {[kind |-> "object", text |-> t, author |-> a] :
              t \in {Undefined, "hello"}, a \in {Undefined, "agent", "client"}}

ObjectBodies ==
    {[kind |-> "object", text |-> t, author |-> a, dialogId |-> d, dialog_id |-> e,
      message |-> m] :
        t \in {Undefined, "", "hi"}, a \in {Undefined, "agent", "client"},
        d \in {Undefined, "", "7"}, e \in {Undefined, "8"}, m \in MessageValues}

JsonBodies == ObjectBodies \cup {NullBody, PrimitiveBody}

\* no fetch() of the page has been intercepted yet
NoFetch ==
    [by |-> "none", url |-> NoUrl, options |-> NoOptions, body |-> NullBody,
     responder |-> FALSE]

NotAnalyzed == [called |-> FALSE, result |-> Null]

\* the value of a try block that has thrown
Thrown == "TypeError"

\* data.message && data.message[field]
messageField(data, field) ==
    CASE data.message.kind = "undefined" -> Undefined
      [] data.message.kind = "null" -> Null
      [] data.message.kind = "primitive" -> Undefined
      [] OTHER -> data.message[field]

\* the try block of analyzeResponseForIncomingMessage
analyzeTry(data, url) ==
    IF ~ url.defined THEN Thrown
    ELSE IF includes(urlToString(url), "send-agent-message") THEN Null
    ELSE IF data.kind = "null" THEN Thrown
    ELSE LET hasText == Or(data.text, messageField(data, "text"))
             author == Or(data.author, messageField(data, "author"))
             dialogId == Or(data.dialogId, data.dialog_id)
         IN  IF ~ Truthy(hasText) THEN Null
             ELSE IF author = "agent" THEN Null
             ELSE IF ~ Truthy(dialogId) THEN Null
             ELSE dialogId

\* analyzeResponseForIncomingMessage without its catch
analyzeResponseForIncomingMessageNoCatch(data, url) ==
    analyzeTry(data, url)

\* function analyzeResponseForIncomingMessage(data, url): the catch returns null
analyzeResponseForIncomingMessage(data, url) ==
    IF analyzeTry(data, url) = Thrown THEN Null ELSE analyzeTry(data, url)

----------------------------------------------------------------------------
(* The worker script *)

\* function initialize(): issue the load; its callback is StorageGetDone
initialize ==
    storageOps' = Append(storageOps, GetOp)

\* saveAppealId without the duplicate check
saveAppealIdNoCheck(appealId, url) ==
    /\ appealIds' = Append(appealIds, [appealId |-> appealId, url |-> url,
                                       timestamp |-> clock,
                                       isoTimestamp |-> toISOString(clock)])
    /\ storageOps' = Append(storageOps, SetOp("appealIds", appealIds'))

\* function saveAppealId(appealId, url)
saveAppealId(appealId, url) ==
    LET newEntry == [appealId |-> appealId, url |-> url, timestamp |-> clock,
                     isoTimestamp |-> toISOString(clock)]
    IN  IF ~ \E i \in DOMAIN appealIds : appealIds[i].appealId = appealId
        THEN /\ appealIds' = Append(appealIds, newEntry)
             /\ storageOps' = Append(storageOps, SetOp("appealIds", appealIds'))
        ELSE UNCHANGED <<appealIds, storageOps>>

\* saveDialogId writing the new entry instead of the collection
saveDialogIdWritingEntry(dialogId, url) ==
    LET newEntry == [dialogId |-> dialogId, url |-> url, timestamp |-> clock,
                     isoTimestamp |-> toISOString(clock)]
    IN  IF ~ \E i \in DOMAIN dialogIds : dialogIds[i].dialogId = dialogId
        THEN /\ dialogIds' = Append(dialogIds, newEntry)
             /\ storageOps' = Append(storageOps, SetOp("dialogIds", <<newEntry>>))
        ELSE UNCHANGED <<dialogIds, storageOps>>

\* function saveDialogId(dialogId, url)
saveDialogId(dialogId, url) ==
    LET newEntry == [dialogId |-> dialogId, url |-> url, timestamp |-> clock,
                     isoTimestamp |-> toISOString(clock)]
    IN  IF ~ \E i \in DOMAIN dialogIds : dialogIds[i].dialogId = dialogId
        THEN /\ dialogIds' = Append(dialogIds, newEntry)
             /\ storageOps' = Append(storageOps, SetOp("dialogIds", dialogIds'))
        ELSE UNCHANGED <<dialogIds, storageOps>>

\* clearAllData that returns early when both collections are empty
clearAllDataIfAny ==
    IF appealIds = <<>> /\ dialogIds = <<>>
    THEN UNCHANGED <<appealIds, dialogIds, storageOps>>
    ELSE /\ appealIds' = <<>>
         /\ dialogIds' = <<>>
         /\ storageOps' = Append(storageOps, RemoveOp)

\* function clearAllData()
clearAllData ==
    /\ appealIds' = <<>>
    /\ dialogIds' = <<>>
    /\ storageOps' = Append(storageOps, RemoveOp)

\* function sendAutoResponse(dialogId): the fetch is issued, nothing is awaited
sendAutoResponse(dialogId) ==
    LET responseData == [dialogId |-> dialogId, text |-> AUTO_RESPONSE_TEXT,
                         replyId |-> "null", templateId |-> AUTO_RESPONSE_TEMPLATE_ID]
    IN  posts' = Append(posts, [url |-> AUTO_RESPONSE_ENDPOINT, method |-> "POST",
                                body |-> responseData, status |-> "pending"])

Success == [success |-> TRUE, error |-> Undefined, data |-> <<>>]

Failure(error) == [success |-> FALSE, error |-> error, data |-> <<>>]

\* the saveAppealId case calling saveDialogId
caseSaveAppealIdIntoDialogs(request) ==
    IF request.hasData
    THEN /\ saveDialogId(request.data.appealId, request.data.url)
         /\ lastResponse' = Success
         /\ UNCHANGED <<appealIds, posts>>
    ELSE /\ lastResponse' = Failure("No data provided for saveAppealId")
         /\ UNCHANGED <<appealIds, dialogIds, storageOps, posts>>

\* the listener's saveAppealId case
caseSaveAppealId(request) ==
    IF request.hasData
    THEN /\ saveAppealId(request.data.appealId, request.data.url)
         /\ lastResponse' = Success
         /\ UNCHANGED <<dialogIds, posts>>
    ELSE /\ lastResponse' = Failure("No data provided for saveAppealId")
         /\ UNCHANGED <<appealIds, dialogIds, storageOps, posts>>

\* the listener's saveDialogId case
caseSaveDialogId(request) ==
    IF request.hasData
    THEN /\ saveDialogId(request.data.dialogId, request.data.url)
         /\ lastResponse' = Success
         /\ UNCHANGED <<appealIds, posts>>
    ELSE /\ lastResponse' = Failure("No data provided for saveDialogId")
         /\ UNCHANGED <<appealIds, dialogIds, storageOps, posts>>

\* the incomingMessageDetected case testing request.data only, as the save cases do
caseIncomingMessageDetectedAnyData(request) ==
    IF request.hasData
    THEN /\ sendAutoResponse(request.data.dialogId)
         /\ lastResponse' = Success
         /\ UNCHANGED <<appealIds, dialogIds, storageOps>>
    ELSE /\ lastResponse' = Failure("No dialogId provided for incoming message")
         /\ UNCHANGED <<appealIds, dialogIds, storageOps, posts>>

\* the listener's incomingMessageDetected case
caseIncomingMessageDetected(request) ==
    IF request.hasData /\ Truthy(request.data.dialogId)
    THEN /\ sendAutoResponse(request.data.dialogId)
         /\ lastResponse' = Success
         /\ UNCHANGED <<appealIds, dialogIds, storageOps>>
    ELSE /\ lastResponse' = Failure("No dialogId provided for incoming message")
         /\ UNCHANGED <<appealIds, dialogIds, storageOps, posts>>

\* the listener's getData case
caseGetData ==
    /\ lastResponse' = [success |-> TRUE, error |-> Undefined,
                        data |-> <<[appealIds |-> appealIds, dialogIds |-> dialogIds]>>]
    /\ UNCHANGED <<appealIds, dialogIds, storageOps, posts>>

\* the listener's clearData case
caseClearData ==
    /\ clearAllData
    /\ lastResponse' = Success
    /\ UNCHANGED posts

\* the default case without its break: control falls into the clearData case
caseDefaultFallThrough ==
    /\ clearAllData
    /\ lastResponse' = Failure("Unknown action")
    /\ UNCHANGED posts

\* the listener's default case
caseDefault ==
    /\ lastResponse' = Failure("Unknown action")
    /\ UNCHANGED <<appealIds, dialogIds, storageOps, posts>>

\* line 136 reads request.action of a null message: a TypeError leaves the
\* listener before the switch, sendResponse is never called
throwsTypeError ==
    /\ lastResponse' = NoResponse
    /\ UNCHANGED <<appealIds, dialogIds, storageOps, posts>>

\* chrome.runtime.onMessage listener: switch (request.action)
onMessage(request) ==
    IF request.isNull
    THEN throwsTypeError
    ELSE CASE request.action = "saveAppealId" -> caseSaveAppealId(request)
           [] request.action = "saveDialogId" -> caseSaveDialogId(request)
           [] request.action = "incomingMessageDetected" ->
                  caseIncomingMessageDetected(request)
           [] request.action = "getData" -> caseGetData
           [] request.action = "clearData" -> caseClearData
           [] OTHER -> caseDefault

----------------------------------------------------------------------------
(* History kept for the properties; nothing below is read by the script *)

\* a clearData or a start of the worker ends the story of the records whose
\* write failed; that some write failed is kept
Forgotten(failed) ==
    IF failed = {} THEN {} ELSE {[key |-> "earlier", id |-> Undefined]}

HasAppeal(s, id) == \E i \in DOMAIN s : s[i].appealId = id

HasDialog(s, id) == \E i \in DOMAIN s : s[i].dialogId = id

NextExpectedAppeals(request, response) ==
    IF request.action = "clearData" /\ response.success THEN <<>>
    ELSE IF /\ request.action = "saveAppealId"
            /\ response.success
            /\ ~ HasAppeal(expectedAppeals, request.data.appealId)
         THEN Append(expectedAppeals,
                     [appealId |-> request.data.appealId, url |-> request.data.url,
                      timestamp |-> clock])
         ELSE expectedAppeals

NextExpectedDialogs(request, response) ==
    IF request.action = "clearData" /\ response.success THEN <<>>
    ELSE IF /\ request.action = "saveDialogId"
            /\ response.success
            /\ ~ HasDialog(expectedDialogs, request.data.dialogId)
         THEN Append(expectedDialogs,
                     [dialogId |-> request.data.dialogId, url |-> request.data.url,
                      timestamp |-> clock])
         ELSE expectedDialogs

\* the listener awaits the POSTs issued before it handles the next message
DeliverAfterPosts(request) ==
    /\ \A i \in DOMAIN posts : posts[i].status /= "pending"
    /\ clock + starts <= MaxEvents
    /\ onMessage(request)
    /\ lastRequest' = request
    /\ clock' = clock + 1
    /\ afterClear' = (lastRequest.action = "clearData")
    /\ accepted' = IF request.action = "incomingMessageDetected" /\ lastResponse'.success
                   THEN Append(accepted, request.data.dialogId)
                   ELSE accepted
    /\ expectedAppeals' = NextExpectedAppeals(request, lastResponse')
    /\ expectedDialogs' = NextExpectedDialogs(request, lastResponse')
    /\ clearedSinceStart' = (clearedSinceStart \/ request.action = "clearData")
    /\ failedWrites' = IF request.action = "clearData"
                       THEN Forgotten(failedWrites) ELSE failedWrites
    /\ UNCHANGED <<storage, starts, persistedAtStart, startedAt, ready>>
    /\ UNCHANGED <<scanner, story>>

\* the runtime delivers one message; the listener runs to completion
Deliver(request) ==
    /\ clock + starts <= MaxEvents
    /\ onMessage(request)
    /\ lastRequest' = request
    /\ clock' = clock + 1
    /\ afterClear' = (lastRequest.action = "clearData")
    /\ accepted' = IF request.action = "incomingMessageDetected" /\ lastResponse'.success
                   THEN Append(accepted, request.data.dialogId)
                   ELSE accepted
    /\ expectedAppeals' = NextExpectedAppeals(request, lastResponse')
    /\ expectedDialogs' = NextExpectedDialogs(request, lastResponse')
    /\ clearedSinceStart' = (clearedSinceStart \/ request.action = "clearData")
    /\ failedWrites' = IF request.action = "clearData"
                       THEN Forgotten(failedWrites) ELSE failedWrites
    /\ UNCHANGED <<storage, starts, persistedAtStart, startedAt, ready>>
    /\ UNCHANGED <<scanner, story>>

----------------------------------------------------------------------------
(* The messages senders deliver *)

Msg(action, data) ==
    [isNull |-> FALSE, action |-> action, hasData |-> TRUE, data |-> data]

MsgNoData(action) ==
    [isNull |-> FALSE, action |-> action, hasData |-> FALSE, data |-> NoFields]

\* chrome.runtime.sendMessage(null): the message is no object at all
NullMessage ==
    [isNull |-> TRUE, action |-> Undefined, hasData |-> FALSE, data |-> NoFields]

\* a real id is seen at either url, an empty or missing one at the first
IdAtUrl(ids) ==
    {<<id, u>> \in ids \X Urls : Truthy(id) \/ u = "https://x"}

SaveAppealIdMsgs ==
    {Msg("saveAppealId", [NoFields EXCEPT !.appealId = p[1], !.url = p[2]]) :
        p \in IdAtUrl(AppealIdValues)} \cup {MsgNoData("saveAppealId")}

SaveDialogIdMsgs ==
    {Msg("saveDialogId", [NoFields EXCEPT !.dialogId = p[1], !.url = p[2]]) :
        p \in IdAtUrl(DialogIdValues)} \cup {MsgNoData("saveDialogId")}

IncomingMsgs ==
    {Msg("incomingMessageDetected", [NoFields EXCEPT !.dialogId = id]) :
        id \in DialogIdValues} \cup {MsgNoData("incomingMessageDetected")}

SaveAppealIdRequest == \E request \in SaveAppealIdMsgs : Deliver(request)

SaveDialogIdRequest == \E request \in SaveDialogIdMsgs : Deliver(request)

IncomingMessageRequest == \E request \in IncomingMsgs : Deliver(request)

GetDataRequest == Deliver(MsgNoData("getData"))

ClearDataRequest == Deliver(MsgNoData("clearData"))

UnknownRequest == Deliver(MsgNoData("ping"))

NullMessageRequest == Deliver(NullMessage)

----------------------------------------------------------------------------
(* The environment: storage completions, fetch completions, worker starts *)

\* the record a write adds to the stored collection: the last of its value
NewRecordOf(op) ==
    LET r == op.value[Len(op.value)]
    IN  [key |-> op.key, id |-> IF op.key = "appealIds" THEN r.appealId ELSE r.dialogId]

history == <<clock, starts, lastRequest, lastResponse, afterClear, accepted,
             expectedAppeals, expectedDialogs, persistedAtStart, startedAt,
             clearedSinceStart>>

\* the callback of chrome.storage.local.get in initialize
StorageGetDone ==
    /\ storageOps /= <<>>
    /\ Head(storageOps).op = "get"
    /\ storageOps' = Tail(storageOps)
    /\ appealIds' = IF storage.appealIds.present THEN storage.appealIds.value ELSE appealIds
    /\ dialogIds' = IF storage.dialogIds.present THEN storage.dialogIds.value ELSE dialogIds
    /\ ready' = TRUE
    /\ UNCHANGED <<storage, posts, failedWrites>>
    /\ UNCHANGED history
    /\ UNCHANGED <<scanner, story>>

\* chrome.storage.local.set completes: written, or chrome.runtime.lastError set
StorageSetDone ==
    /\ storageOps /= <<>>
    /\ Head(storageOps).op = "set"
    /\ storageOps' = Tail(storageOps)
    /\ \E ok \in BOOLEAN :
         /\ storage' = IF ok
                       THEN [storage EXCEPT
                                ![Head(storageOps).key] = Stored(Head(storageOps).value)]
                       ELSE storage
         /\ failedWrites' = IF ok THEN failedWrites
                            ELSE failedWrites \cup {NewRecordOf(Head(storageOps))}
    /\ UNCHANGED <<appealIds, dialogIds, posts, ready>>
    /\ UNCHANGED history
    /\ UNCHANGED <<scanner, story>>

\* chrome.storage.local.remove completes
StorageRemoveDone ==
    /\ storageOps /= <<>>
    /\ Head(storageOps).op = "remove"
    /\ storageOps' = Tail(storageOps)
    /\ storage' = [appealIds |-> Absent, dialogIds |-> Absent]
    /\ UNCHANGED <<appealIds, dialogIds, posts, failedWrites, ready>>
    /\ UNCHANGED history
    /\ UNCHANGED <<scanner, story>>

\* the promise chain reports a failed POST to the sender
FetchDoneReporting ==
    \E i \in DOMAIN posts, outcome \in {"ok", "httpError", "networkError"} :
        /\ posts[i].status = "pending"
        /\ posts' = [posts EXCEPT ![i].status = outcome]
        /\ lastResponse' = IF outcome = "ok" THEN lastResponse ELSE Failure("HTTP error")
        /\ UNCHANGED <<appealIds, dialogIds, storage, storageOps, clock, starts,
                       lastRequest, afterClear, accepted, expectedAppeals,
                       expectedDialogs, persistedAtStart, startedAt, clearedSinceStart,
                       failedWrites, ready, scanner, story>>

\* the catch handler sends the POST again
FetchDoneRetrying ==
    \E i \in DOMAIN posts, outcome \in {"ok", "httpError", "networkError"} :
        /\ posts[i].status = "pending"
        /\ posts' = IF outcome = "ok"
                    THEN [posts EXCEPT ![i].status = outcome]
                    ELSE Append([posts EXCEPT ![i].status = outcome],
                                [posts[i] EXCEPT !.status = "pending"])
        /\ Len(posts') <= MaxEvents
        /\ UNCHANGED <<appealIds, dialogIds, storage, storageOps, clock, starts,
                       lastRequest, lastResponse, afterClear, accepted, expectedAppeals,
                       expectedDialogs, persistedAtStart, startedAt, clearedSinceStart,
                       failedWrites, ready, scanner, story>>

\* the catch handler drops the record of the dialog whose POST failed
FetchDoneMarking ==
    \E i \in DOMAIN posts, outcome \in {"ok", "httpError", "networkError"} :
        /\ posts[i].status = "pending"
        /\ posts' = [posts EXCEPT ![i].status = outcome]
        /\ dialogIds' = IF outcome = "ok" THEN dialogIds
                        ELSE SelectSeq(dialogIds,
                                       LAMBDA r : r.dialogId /= posts[i].body.dialogId)
        /\ UNCHANGED <<appealIds, storage, storageOps, failedWrites, ready>>
        /\ UNCHANGED history
        /\ UNCHANGED <<scanner, story>>

\* the promise chain of sendAutoResponse settles: every branch only logs
FetchDone ==
    \E i \in DOMAIN posts, outcome \in {"ok", "httpError", "networkError"} :
        /\ posts[i].status = "pending"
        /\ posts' = [posts EXCEPT ![i].status = outcome]
        /\ UNCHANGED <<appealIds, dialogIds, storage, storageOps, failedWrites, ready>>
        /\ UNCHANGED history
        /\ UNCHANGED <<scanner, story>>

\* The worker script is evaluated again (lines 31-32 run), after the browser
\* was restarted, the extension updated, or the idle worker was suspended and
\* a message wakes it.  initialize runs only for onInstalled and onStartup.
\* Issued storage calls keep the worker alive, so none is outstanding.
WorkerStart ==
    \E reason \in {"installed", "startup", "wake"} :
        /\ clock + starts <= MaxEvents
        /\ storageOps = <<>>
        /\ starts' = starts + 1
        /\ appealIds' = <<>>
        /\ dialogIds' = <<>>
        /\ IF reason \in {"installed", "startup"} THEN initialize ELSE UNCHANGED storageOps
        /\ persistedAtStart' = [appealIds |-> storage.appealIds.value,
                                dialogIds |-> storage.dialogIds.value]
        /\ startedAt' = clock
        /\ clearedSinceStart' = FALSE
        /\ lastRequest' = NoRequest
        /\ lastResponse' = NoResponse
        /\ afterClear' = FALSE
        /\ failedWrites' = Forgotten(failedWrites)
        /\ ready' = FALSE
        /\ UNCHANGED <<storage, posts, clock, accepted, expectedAppeals, expectedDialogs>>
        /\ UNCHANGED <<scanner, story>>

\* what an earlier run of the worker has left in storage: nothing (the
\* extension was just installed), or one record per collection, accepted and
\* written at time 0
EarlierRuns ==
    {[appealIds |-> <<>>, dialogIds |-> <<>>],
     [appealIds |-> <<[appealId |-> "100", url |-> "https://x", timestamp |-> 0,
                       isoTimestamp |-> toISOString(0)]>>,
      dialogIds |-> <<[dialogId |-> "7", url |-> "https://x", timestamp |-> 0,
                       isoTimestamp |-> toISOString(0)]>>]}

AsStored(s) == IF s = <<>> THEN Absent ELSE Stored(s)

AsExpectedAppeals(s) ==
    [i \in DOMAIN s |-> [appealId |-> s[i].appealId, url |-> s[i].url,
                         timestamp |-> s[i].timestamp]]

AsExpectedDialogs(s) ==
    [i \in DOMAIN s |-> [dialogId |-> s[i].dialogId, url |-> s[i].url,
                         timestamp |-> s[i].timestamp]]

\* the worker script has just been evaluated for onInstalled or onStartup,
\* and initialize has issued the load
WorkerStarted(earlier) ==
    /\ appealIds = <<>>
    /\ dialogIds = <<>>
    /\ storage = [appealIds |-> AsStored(earlier.appealIds),
                  dialogIds |-> AsStored(earlier.dialogIds)]
    /\ storageOps = <<GetOp>>
    /\ posts = <<>>
    /\ clock = 1
    /\ starts = 0
    /\ lastRequest = NoRequest
    /\ lastResponse = NoResponse
    /\ afterClear = FALSE
    /\ accepted = <<>>
    /\ expectedAppeals = AsExpectedAppeals(earlier.appealIds)
    /\ expectedDialogs = AsExpectedDialogs(earlier.dialogIds)
    /\ persistedAtStart = earlier
    /\ startedAt = 1
    /\ clearedSinceStart = FALSE
    /\ failedWrites = {}
    /\ ready = FALSE

\* the worker has started; the page has not called fetch()
\* new SmartTextCache(), no call made yet
NewTextCache ==
    /\ cache = {}
    /\ accessTimes = <<>>
    /\ preloading = {}
    /\ now = 0
    /\ cacheOp = [op |-> "new", key |-> ""]

\* the hook's initial state
InitialState ==
    [renderedDialogue |-> <<>>, currentLineIndex |-> 0, isTyping |-> FALSE,
     showChoices |-> FALSE]

\* new OptimizedTextRenderer()
NewRenderer ==
    [activeAnimations |-> {}, pendingUpdates |-> <<>>,
     batchUpdateTimer |-> [on |-> FALSE, lineIndex |-> 0, gen |-> 0]]

\* useOptimizedTextRenderer(null) after its first render
NoReader ==
    /\ scene = Null
    /\ state = InitialState
    /\ animationRef = Null
    /\ renderer = NewRenderer
    /\ timers = {}
    /\ loadGen = 0
    /\ skipped = FALSE
    /\ ran = [kind |-> "none", gens |-> {}, lineIndex |-> 0]
    /\ delivered = {}

\* the story reader is not in use
NoStory == NewTextCache /\ NoReader

Init ==
    /\ \E earlier \in EarlierRuns : WorkerStarted(earlier)
    /\ fetched = NoFetch
    /\ analysis = NotAnalyzed
    /\ outbox = <<>>
    /\ NoStory

Next ==
    \/ SaveAppealIdRequest
    \/ SaveDialogIdRequest
    \/ IncomingMessageRequest
    \/ GetDataRequest
    \/ ClearDataRequest
    \/ UnknownRequest
    \/ StorageGetDone
    \/ StorageSetDone
    \/ StorageRemoveDone
    \/ FetchDone
    \/ WorkerStart

\* the messages the content script and the popup of this extension send,
\* and a message with an action none of them sends
Spec == Init /\ [][Next]_vars

\* any message a sender can pass to chrome.runtime.sendMessage
NextAnySender ==
    \/ Next
    \/ NullMessageRequest

SpecAnySender == Init /\ [][NextAnySender]_vars

----------------------------------------------------------------------------
(* The content script at work.  The messages it sends are kept in outbox;
   the worker is idle meanwhile. *)

hub == <<appealIds, dialogIds, storage, storageOps, posts, clock, starts,
         lastRequest, lastResponse, afterClear, accepted, expectedAppeals,
         expectedDialogs, persistedAtStart, startedAt, clearedSinceStart,
         failedWrites, ready>>

\* the message function foundDialogId(dialogId, url) sends
foundDialogId(dialogId, url) ==
    Msg("saveDialogId", [NoFields EXCEPT !.dialogId = dialogId, !.url = url])

\* the message function foundAppealId(appealId, url) sends
foundAppealId(appealId, url) ==
    Msg("saveAppealId", [NoFields EXCEPT !.appealId = appealId, !.url = url])

\* the message function incomingMessageDetected(dialogId) sends
incomingMessageDetected(dialogId) ==
    Msg("incomingMessageDetected", [NoFields EXCEPT !.dialogId = dialogId])

\* OmniHelper.responder.analyze is called with a parsed body and a url
Analyze(data, url) ==
    /\ fetched' = [fetched EXCEPT !.by = "analyze"]
    /\ analysis' = [called |-> TRUE,
                    result |-> analyzeResponseForIncomingMessage(data, url)]
    /\ outbox' = <<>>
    /\ UNCHANGED <<hub, story>>

AnalyzeResponse ==
    /\ fetched.by = "pending"
    /\ fetched.responder
    /\ fetched.body \in JsonBodies
    /\ Analyze(fetched.body, fetched.url)

\* the callback of clonedResponse.text(): an exception of JSON.parse, of
\* data.dialogId for a null body, or of the responder is caught and ignored
responseHandler(data, url, responder, sent) ==
    IF data.kind \in {"invalid", "null"}
    THEN /\ outbox' = sent
         /\ analysis' = NotAnalyzed
    ELSE LET foundDialogIdInResponse == Or(data.dialogId, data.dialog_id)
             found == IF Truthy(foundDialogIdInResponse)
                      THEN Append(sent, foundDialogId(foundDialogIdInResponse, url))
                      ELSE sent
             incomingDialogId == analyzeResponseForIncomingMessage(data, url)
         IN  IF ~ responder
             THEN /\ outbox' = found
                  /\ analysis' = NotAnalyzed
             ELSE /\ analysis' = [called |-> TRUE, result |-> incomingDialogId]
                  /\ outbox' = IF incomingDialogId /= Thrown /\ Truthy(incomingDialogId)
                               THEN Append(found, incomingMessageDetected(incomingDialogId))
                               ELSE found

\* the request interception of the replaced window.fetch: the messages it
\* sends, in order. An exception of JSON.parse, or of jsonBody.dialogId for a
\* null body, is caught and ignored
InterceptRequest(url, options) ==
    IF ~ (options.present /\ options.method \in {"PUT", "POST", "GET"})
    THEN <<>>
    ELSE LET appealId == searchParamsGet(url, "appealId")
             dialogId == searchParamsGet(url, "dialogId")
             jsonBody == options.body
             fromUrl ==
                 (IF Truthy(appealId) THEN <<foundAppealId(appealId, url)>> ELSE <<>>)
                 \o (IF Truthy(dialogId) THEN <<foundDialogId(dialogId, url)>> ELSE <<>>)
             fromBody ==
                 IF jsonBody.kind /= "object"
                 THEN <<>>
                 ELSE (IF Truthy(Or(jsonBody.dialogId, jsonBody.dialog_id))
                       THEN <<foundDialogId(Or(jsonBody.dialogId, jsonBody.dialog_id), url)>>
                       ELSE <<>>)
                      \o (IF Truthy(Or(jsonBody.appealId, jsonBody.appeal_id))
                          THEN <<foundAppealId(Or(jsonBody.appealId, jsonBody.appeal_id), url)>>
                          ELSE <<>>)
         IN  fromUrl \o fromBody

\* the page calls fetch(url, options) and the response arrives: after the
\* request interception, url.toString() of an undefined url throws, and a url
\* that does not mention the chat domain is not looked at
InterceptResponse(data, url, responder, sent) ==
    /\ fetched' = [fetched EXCEPT !.by = "fetch"]
    /\ IF url.defined /\ includes(urlToString(url), "omnichat.rt.ru")
       THEN responseHandler(data, url, responder, sent)
       ELSE /\ outbox' = sent
            /\ analysis' = NotAnalyzed
    /\ UNCHANGED <<hub, story>>

\* window.fetch as interceptFetch replaces it
FetchResponse ==
    /\ fetched.by = "pending"
    /\ InterceptResponse(fetched.body, fetched.url, fetched.responder,
                         InterceptRequest(fetched.url, fetched.options))

\* the response bodies tried with every options argument
SampleBodies ==
    {InvalidBody,
     [kind |-> "object", text |-> "hi", author |-> "client", dialogId |-> "7",
      dialog_id |-> Undefined, message |-> NoMessage]}

\* a call of fetch, the body of the response fetched, and whether the
\* responder script is loaded: one input per behaviour, the content script
\* keeps no state from one fetch() to the next
InitScanner ==
    /\ WorkerStarted([appealIds |-> <<>>, dialogIds |-> <<>>])
    /\ \E url \in FetchUrls :
          \* the calls fetch(url), with every response body
          \/ \E data \in JsonBodies \cup {InvalidBody}, r \in BOOLEAN :
                 fetched = [by |-> "pending", url |-> url, options |-> NoOptions,
                            body |-> data, responder |-> r]
          \* the calls fetch(url, options), with the sample bodies
          \/ \E o \in FetchOptions, data \in SampleBodies :
                 fetched = [by |-> "pending", url |-> url, options |-> o,
                            body |-> data, responder |-> TRUE]
    /\ analysis = NotAnalyzed
    /\ outbox = <<>>
    /\ NoStory

NextScanner ==
    \/ AnalyzeResponse
    \/ FetchResponse

SpecScanner == InitScanner /\ [][NextScanner]_vars

----------------------------------------------------------------------------
(* The text cache of the story reader (part_003:201-308).  A Map is the
   sequence of its entries in insertion order, which is the order a for-of
   loop visits them in; of the cached values only the key matters here. *)

\* maxCacheSize is 50 in the source (part_003:203); the model's caches are smaller
maxCacheSize == 2

\* the largest value of Date.now() the model lets the clock reach
MaxNow == 2

\* the scene keys passed to the cache; the empty string is one of them
CacheKeys == {"", "scene1", "scene2"}

\* Map.prototype.keys
MapKeys(map) == {map[i].key : i \in DOMAIN map}

\* Map.prototype.set: an existing key keeps its place
MapSet(map, key, time) ==
    IF key \in MapKeys(map)
    THEN [i \in DOMAIN map |-> IF map[i].key = key THEN [key |-> key, time |-> time]
                                                   ELSE map[i]]
    ELSE Append(map, [key |-> key, time |-> time])

\* Map.prototype.delete
MapDelete(map, key) == SelectSeq(map, LAMBDA entry : entry.key /= key)

\* the loop of evictLeastRecentlyUsed over the first n entries: oldestKey and
\* oldestTime start as '' and Date.now()
RECURSIVE oldestOf(_, _, _)
oldestOf(map, n, time) ==
    IF n = 0
    THEN [oldestKey |-> "", oldestTime |-> time]
    ELSE LET before == oldestOf(map, n - 1, time)
         IN  IF map[n].time < before.oldestTime
             THEN [oldestKey |-> map[n].key, oldestTime |-> map[n].time]
             ELSE before

\* evictLeastRecentlyUsed(): the cache and the access times it leaves
evictLeastRecentlyUsed(entries, times, time) ==
    LET oldestKey == oldestOf(times, Len(times), time).oldestKey
    IN  IF oldestKey /= ""
        THEN [cache |-> entries \ {oldestKey}, accessTimes |-> MapDelete(times, oldestKey)]
        ELSE [cache |-> entries, accessTimes |-> times]

\* store(key, data, chunks)
store(key) ==
    LET kept == IF Cardinality(cache) >= maxCacheSize
                THEN evictLeastRecentlyUsed(cache, accessTimes, now)
                ELSE [cache |-> cache, accessTimes |-> accessTimes]
    IN  /\ cache' = kept.cache \cup {key}
        /\ accessTimes' = MapSet(kept.accessTimes, key, now)

Store ==
    \E key \in CacheKeys :
        /\ store(key)
        /\ cacheOp' = [op |-> "store", key |-> key]
        /\ UNCHANGED <<preloading, now>>
        /\ UNCHANGED <<hub, scanner, reader>>

\* get(key)
Get ==
    \E key \in CacheKeys :
        /\ accessTimes' = IF key \in cache THEN MapSet(accessTimes, key, now)
                                           ELSE accessTimes
        /\ cacheOp' = [op |-> "get", key |-> key]
        /\ UNCHANGED <<cache, preloading, now>>
        /\ UNCHANGED <<hub, scanner, reader>>

\* preload(keys, processor): the processor is called for the keys not cached
Preload ==
    \E keys \in SUBSET CacheKeys :
        /\ preloading' = preloading \cup (keys \ cache)
        /\ cacheOp' = [op |-> "preload", key |-> ""]
        /\ UNCHANGED <<cache, accessTimes, now>>
        /\ UNCHANGED <<hub, scanner, reader>>

\* the promise of processor(key) is fulfilled: the text is stored
PreloadFulfilled ==
    \E key \in preloading :
        /\ store(key)
        /\ preloading' = preloading \ {key}
        /\ cacheOp' = [op |-> "store", key |-> key]
        /\ UNCHANGED now
        /\ UNCHANGED <<hub, scanner, reader>>

\* the promise of processor(key) is rejected: a warning is logged
PreloadRejected ==
    \E key \in preloading :
        /\ preloading' = preloading \ {key}
        /\ cacheOp' = [op |-> "rejected", key |-> key]
        /\ UNCHANGED <<cache, accessTimes, now>>
        /\ UNCHANGED <<hub, scanner, reader>>

\* clear()
Clear ==
    /\ cache' = {}
    /\ accessTimes' = <<>>
    /\ cacheOp' = [op |-> "clear", key |-> ""]
    /\ UNCHANGED <<preloading, now>>
    /\ UNCHANGED <<hub, scanner, reader>>

\* a millisecond passes
Tick ==
    /\ now < MaxNow
    /\ now' = now + 1
    /\ cacheOp' = [op |-> "tick", key |-> ""]
    /\ UNCHANGED <<cache, accessTimes, preloading>>
    /\ UNCHANGED <<hub, scanner, reader>>

InitCache ==
    /\ WorkerStarted([appealIds |-> <<>>, dialogIds |-> <<>>])
    /\ fetched = NoFetch
    /\ analysis = NotAnalyzed
    /\ outbox = <<>>
    /\ NoStory

NextCache ==
    \/ Store
    \/ Get
    \/ Preload
    \/ PreloadFulfilled
    \/ PreloadRejected
    \/ Clear
    \/ Tick

SpecCache == InitCache /\ [][NextCache]_vars

----------------------------------------------------------------------------
(* The story reader: the hook useOptimizedTextRenderer (part_005) driving
   OptimizedTextRenderer (part_003:318-627).  A line of dialogue is the
   number of characters of its text, and a text on display is the scene, the
   line and the number of characters revealed, so that a partial text and a
   text of another scene differ from the complete one.  Lines are counted
   from 0 as in the source.  An animation key is the scene key and the line
   index.  With dialogues of at most two lines getVirtualizedLines returns
   every line from the first (part_003:51-57).  The continuation of await
   preloadScene runs as a microtask, before any timer, frame or event, so
   loadScene is one step. *)

\* how often the scene prop may change
MaxLoads == 2

Scenes == {"scene1", "scene2"}

\* scene.dialogue: the length of each line's text
Dialogue(s) == IF s = "scene1" THEN <<1, 2>> ELSE <<1>>

\* line.character + ': ' + line.text.substring(0, chars)
Text(s, lineIndex, chars) == [scene |-> s, lineIndex |-> lineIndex, chars |-> chars]

\* scene.dialogue.map(line => line.character + ': ' + line.text)
completeDialogue(s) ==
    [i \in 1..Len(Dialogue(s)) |-> Text(s, i - 1, Dialogue(s)[i])]

\* the animation key of a line: dialogue[0].id and the line index
animationKey(s, lineIndex) == <<s, lineIndex>>

\* newDialogue[index] = text, on a copy of the array: an array that is too
\* short is extended with holes
SetAt(array, index, text) ==
    [j \in 1..(IF index + 1 > Len(array) THEN index + 1 ELSE Len(array)) |->
        IF j = index + 1 THEN text
        ELSE IF j <= Len(array) THEN array[j] ELSE Undefined]

\* pendingUpdates.set(key, update): an existing key keeps its place
queueUpdate(pending, key, update) ==
    IF \E i \in DOMAIN pending : pending[i].key = key
    THEN [i \in DOMAIN pending |->
             IF pending[i].key = key THEN [key |-> key, update |-> update] ELSE pending[i]]
    ELSE Append(pending, [key |-> key, update |-> update])

\* cancelAnimation(key): nothing is done for a key that is not active
cancelAnimation(r, key) ==
    IF \E a \in r.activeAnimations : a.key = key
    THEN [r EXCEPT !.activeAnimations = {a \in @ : a.key /= key},
                   !.pendingUpdates = SelectSeq(@, LAMBDA p : p.key /= key)]
    ELSE r

\* startBatchUpdates(onUpdate): a running timer keeps the onUpdate it has
startBatchUpdates(r, lineIndex, gen) ==
    IF r.batchUpdateTimer.on
    THEN r
    ELSE [r EXCEPT !.batchUpdateTimer = [on |-> TRUE, lineIndex |-> lineIndex, gen |-> gen]]

\* flushPendingUpdates()
flushPendingUpdates(r) ==
    [r EXCEPT !.batchUpdateTimer = [on |-> FALSE, lineIndex |-> 0, gen |-> 0]]

\* animateTextOptimized(dialogue, lineIndex, onUpdate, onComplete) for a line
\* the dialogue has: the renderer it leaves, with the first frame requested
animateTextOptimized(r, s, lineIndex, gen) ==
    LET key == animationKey(s, lineIndex)
        started == startBatchUpdates(cancelAnimation(r, key), lineIndex, gen)
    IN  [started EXCEPT !.activeAnimations =
             @ \cup {[key |-> key, gen |-> gen, charIndex |-> 0]}]

\* the onUpdate callback of animateNextLine(lineIndex), called with an update
onUpdate(st, lineIndex, update) ==
    [st EXCEPT !.renderedDialogue = SetAt(@, update.lineIndex, update.text),
               !.currentLineIndex = lineIndex]

\* the loop of the batch timer over the first n pending updates
RECURSIVE sendUpdates(_, _, _, _)
sendUpdates(st, pending, n, lineIndex) ==
    IF n = 0 THEN st
    ELSE onUpdate(sendUpdates(st, pending, n - 1, lineIndex), lineIndex,
                  pending[n].update)

\* the scene prop changes and the effect calls loadScene(scene)
LoadScene ==
    \E newScene \in Scenes \ {scene} :
        LET key == animationKey(newScene, 0)
            cancelled == IF animationRef /= Null
                         THEN cancelAnimation(renderer, animationRef)
                         ELSE renderer
        IN  /\ loadGen < MaxLoads
            /\ loadGen' = loadGen + 1
            /\ scene' = newScene
            /\ IF newScene \in cache
               THEN /\ accessTimes' = MapSet(accessTimes, newScene, now)
                    /\ UNCHANGED cache
               ELSE store(newScene)
            /\ state' = [InitialState EXCEPT !.isTyping = TRUE]
            /\ animationRef' = key
            /\ renderer' = animateTextOptimized(cancelled, newScene, 0, loadGen + 1)
            /\ skipped' = FALSE
            /\ ran' = [kind |-> "loadScene", gens |-> {loadGen + 1}, lineIndex |-> 0]
            /\ UNCHANGED <<timers, delivered, preloading, now, cacheOp>>
            /\ UNCHANGED <<hub, scanner>>

\* a frame of an active animation in which characters are revealed; a frame
\* in which too little time has passed requests the next one and changes
\* nothing
Frame ==
    \E a \in renderer.activeAnimations, batchSize \in {1, 2, 3} :
        LET s == a.key[1]
            lineIndex == a.key[2]
            length == Dialogue(s)[lineIndex + 1]
            charIndex == IF a.charIndex + batchSize < length
                         THEN a.charIndex + batchSize ELSE length
            update == [gen |-> a.gen, lineIndex |-> lineIndex,
                       text |-> Text(s, lineIndex, charIndex),
                       isComplete |-> charIndex >= length]
            queued == [renderer EXCEPT
                          !.pendingUpdates = queueUpdate(@, a.key, update)]
        IN  /\ IF charIndex >= length
               THEN /\ renderer' = flushPendingUpdates(
                                       [queued EXCEPT !.activeAnimations = @ \ {a}])
                    /\ timers' = timers \cup {[kind |-> "onComplete", gen |-> a.gen,
                                                scene |-> s, lineIndex |-> lineIndex]}
               ELSE /\ renderer' = [queued EXCEPT !.activeAnimations =
                                        (@ \ {a}) \cup {[a EXCEPT !.charIndex = charIndex]}]
                    /\ UNCHANGED timers
            /\ ran' = [kind |-> "frame", gens |-> {a.gen}, lineIndex |-> lineIndex]
            /\ UNCHANGED <<scene, state, animationRef, loadGen, skipped, delivered>>
            /\ UNCHANGED <<hub, scanner, textCache>>

\* the batch timer fires with updates pending
BatchUpdate ==
    LET pending == renderer.pendingUpdates
        timer == renderer.batchUpdateTimer
    IN  /\ timer.on
        /\ pending /= <<>>
        /\ state' = sendUpdates(state, pending, Len(pending), timer.lineIndex)
        /\ renderer' = [renderer EXCEPT !.pendingUpdates = <<>>]
        /\ delivered' = delivered \cup
               {<<pending[i].update.gen, pending[i].update.lineIndex>> :
                   i \in {j \in DOMAIN pending : pending[j].update.isComplete}}
        /\ ran' = [kind |-> "onUpdate",
                   gens |-> {timer.gen} \cup {pending[i].update.gen : i \in DOMAIN pending},
                   lineIndex |-> timer.lineIndex]
        /\ UNCHANGED <<scene, animationRef, timers, loadGen, skipped>>
        /\ UNCHANGED <<hub, scanner, textCache>>

\* newLineDelay after the last character: onComplete(lineIndex) runs
OnComplete ==
    \E t \in timers :
        /\ t.kind = "onComplete"
        /\ state' = [state EXCEPT !.currentLineIndex = t.lineIndex + 1]
        /\ timers' = (timers \ {t}) \cup {[t EXCEPT !.kind = "animateNextLine"]}
        /\ ran' = [kind |-> "onComplete", gens |-> {t.gen}, lineIndex |-> t.lineIndex]
        /\ UNCHANGED <<scene, animationRef, renderer, loadGen, skipped, delivered>>
        /\ UNCHANGED <<hub, scanner, textCache>>

\* 100 ms later: animateNextLine(lineIndex + 1) runs
AnimateNextLine ==
    \E t \in timers :
        LET lineIndex == t.lineIndex + 1
        IN  /\ t.kind = "animateNextLine"
            /\ timers' = timers \ {t}
            /\ IF lineIndex >= Len(Dialogue(t.scene))
               THEN /\ state' = [state EXCEPT !.isTyping = FALSE, !.showChoices = TRUE]
                    /\ UNCHANGED <<animationRef, renderer>>
               ELSE /\ animationRef' = animationKey(t.scene, lineIndex)
                    /\ renderer' = animateTextOptimized(renderer, t.scene, lineIndex, t.gen)
                    /\ UNCHANGED state
            /\ ran' = [kind |-> "animateNextLine", gens |-> {t.gen}, lineIndex |-> lineIndex]
            /\ UNCHANGED <<scene, loadGen, skipped, delivered>>
            /\ UNCHANGED <<hub, scanner, textCache>>

\* skipAnimation() with an animation key in animationRef; without one it
\* does nothing
SkipAnimation ==
    /\ animationRef /= Null
    /\ renderer' = cancelAnimation(renderer, animationRef)
    /\ animationRef' = Null
    /\ IF scene /= Null
       THEN state' = [renderedDialogue |-> completeDialogue(scene),
                      currentLineIndex |-> Len(Dialogue(scene)),
                      isTyping |-> FALSE, showChoices |-> TRUE]
       ELSE UNCHANGED state
    /\ skipped' = TRUE
    /\ ran' = [kind |-> "skipAnimation", gens |-> {loadGen}, lineIndex |-> 0]
    /\ UNCHANGED <<scene, timers, loadGen, delivered>>
    /\ UNCHANGED <<hub, scanner, textCache>>

InitReader ==
    /\ WorkerStarted([appealIds |-> <<>>, dialogIds |-> <<>>])
    /\ fetched = NoFetch
    /\ analysis = NotAnalyzed
    /\ outbox = <<>>
    /\ NoStory

NextReader ==
    \/ LoadScene
    \/ Frame
    \/ BatchUpdate
    \/ OnComplete
    \/ AnimateNextLine
    \/ SkipAnimation

SpecReader == InitReader /\ [][NextReader]_vars

----------------------------------------------------------------------------
(* Properties *)

KnownActions ==
    {"saveAppealId", "saveDialogId", "incomingMessageDetected", "getData", "clearData"}

\* the snapshot a getData response carries
Snapshot == lastResponse.data[1]

AppealIdsOf(s) == [i \in DOMAIN s |-> s[i].appealId]

DialogIdsOf(s) == [i \in DOMAIN s |-> s[i].dialogId]

\* C1: in every reachable state no two records of appealIds share an appealId
\* and no two records of dialogIds share a dialogId
C1_UniqueKeys ==
    /\ \A i, j \in DOMAIN appealIds :
          i /= j => appealIds[i].appealId /= appealIds[j].appealId
    /\ \A i, j \in DOMAIN dialogIds :
          i /= j => dialogIds[i].dialogId /= dialogIds[j].dialogId

\* C1: a saveAppealId for an id the collection already holds has been handled
C1_Witness ==
    /\ lastRequest.action = "saveAppealId"
    /\ lastRequest.hasData
    /\ lastRequest.data.url = "https://y"
    /\ \E i \in DOMAIN appealIds :
          /\ appealIds[i].appealId = lastRequest.data.appealId
          /\ appealIds[i].url = "https://x"

\* C2: the record stored for an id carries the url and the timestamp of the
\* first save of that id that was answered with success since the last
\* clearData, whatever later saves of the id carried
C2_FirstWriteWins ==
    /\ \A i \in DOMAIN appealIds, j \in DOMAIN expectedAppeals :
          (Truthy(appealIds[i].appealId)
             /\ appealIds[i].appealId = expectedAppeals[j].appealId)
              => /\ appealIds[i].url = expectedAppeals[j].url
                 /\ appealIds[i].timestamp = expectedAppeals[j].timestamp
    /\ \A i \in DOMAIN dialogIds, j \in DOMAIN expectedDialogs :
          (Truthy(dialogIds[i].dialogId)
             /\ dialogIds[i].dialogId = expectedDialogs[j].dialogId)
              => /\ dialogIds[i].url = expectedDialogs[j].url
                 /\ dialogIds[i].timestamp = expectedDialogs[j].timestamp

\* C3: a saveAppealId or saveDialogId whose id is missing or empty is answered
\* with success:false, and the collection holds no record for it
C3_EmptyIdRejected ==
    /\ (lastRequest.action = "saveAppealId" /\ ~ Truthy(lastRequest.data.appealId))
          => /\ ~ lastResponse.success
             /\ ~ HasAppeal(appealIds, lastRequest.data.appealId)
    /\ (lastRequest.action = "saveDialogId" /\ ~ Truthy(lastRequest.data.dialogId))
          => /\ ~ lastResponse.success
             /\ ~ HasDialog(dialogIds, lastRequest.data.dialogId)

\* C4: a getData that is the next request handled after a clearData is
\* answered with two empty collections
C4_GetDataAfterClear ==
    (afterClear /\ lastRequest.action = "getData")
        => Snapshot = [appealIds |-> <<>>, dialogIds |-> <<>>]

\* C5: an incomingMessageDetected with a non-empty dialogId is answered with
\* success:true, while its POST is pending and whatever the POST's fate is
C5_IncomingAcknowledged ==
    (/\ lastRequest.action = "incomingMessageDetected"
     /\ lastRequest.hasData
     /\ Truthy(lastRequest.data.dialogId))
        => lastResponse = Success

\* C5: the POST of the request answered last has failed on the network
C5_Witness ==
    /\ lastRequest.action = "incomingMessageDetected"
    /\ lastResponse.success
    /\ posts /= <<>>
    /\ posts[Len(posts)].status = "networkError"
    /\ \E i \in DOMAIN posts : posts[i].status = "pending"

\* C6: the POSTs issued are, in order, one per incomingMessageDetected answered
\* with success, each to the fixed endpoint with that request's dialogId, the
\* fixed text, replyId null and the fixed templateId
C6_OnePostPerAccepted ==
    /\ Len(posts) = Len(accepted)
    /\ \A i \in DOMAIN posts :
          /\ posts[i].url = AUTO_RESPONSE_ENDPOINT
          /\ posts[i].method = "POST"
          /\ posts[i].body = [dialogId |-> accepted[i], text |-> AUTO_RESPONSE_TEXT,
                              replyId |-> "null",
                              templateId |-> AUTO_RESPONSE_TEMPLATE_ID]

\* C6: two POSTs were issued, one has failed, and a request of another kind
\* was handled after them
C6_Witness ==
    /\ Len(posts) = 2
    /\ \E i \in DOMAIN posts : posts[i].status \in {"httpError", "networkError"}
    /\ lastRequest.action = "saveDialogId"
    /\ lastResponse.success

\* C7: a getData response holds a record for every id whose save this worker
\* has answered with success since the last clearData
C7_AcceptedStaysVisible ==
    lastRequest.action = "getData"
        => /\ \A j \in DOMAIN expectedAppeals :
                 (Truthy(expectedAppeals[j].appealId)
                    /\ expectedAppeals[j].timestamp >= startedAt)
                     => HasAppeal(Snapshot.appealIds, expectedAppeals[j].appealId)
           /\ \A j \in DOMAIN expectedDialogs :
                 (Truthy(expectedDialogs[j].dialogId)
                    /\ expectedDialogs[j].timestamp >= startedAt)
                     => HasDialog(Snapshot.dialogIds, expectedDialogs[j].dialogId)

\* C8: a getData handled after a start of the worker, with no clearData since,
\* returns every record storage held when the worker started
C8_RehydratedAfterStart ==
    (lastRequest.action = "getData" /\ ~ clearedSinceStart)
        => /\ \A j \in DOMAIN persistedAtStart.appealIds :
                 \E i \in DOMAIN Snapshot.appealIds :
                     Snapshot.appealIds[i] = persistedAtStart.appealIds[j]
           /\ \A j \in DOMAIN persistedAtStart.dialogIds :
                 \E i \in DOMAIN Snapshot.dialogIds :
                     Snapshot.dialogIds[i] = persistedAtStart.dialogIds[j]

\* C9: once this worker has handled a clearData, a getData response lists, per
\* collection, exactly the ids accepted since the last clearData, each once,
\* in the order of their first acceptance
C9_GetDataExact ==
    (lastRequest.action = "getData" /\ clearedSinceStart)
        => /\ AppealIdsOf(Snapshot.appealIds) = AppealIdsOf(expectedAppeals)
           /\ DialogIdsOf(Snapshot.dialogIds) = DialogIdsOf(expectedDialogs)

\* C10: a request with an unknown action is answered with success:false and
\* the error "Unknown action", and handling it changes neither collection,
\* nor storage, nor the storage calls issued, nor the POSTs issued
C10_UnknownAction ==
    /\ [](lastRequest.action \notin KnownActions \cup {"none"}
             => lastResponse = Failure("Unknown action"))
    /\ [][(clock' = clock + 1 /\ lastRequest'.action \notin KnownActions)
             => UNCHANGED coordinator]_vars

\* C10: an unknown action was handled while records and a POST exist
C10_Witness ==
    /\ lastRequest.action = "ping"
    /\ lastResponse = Failure("Unknown action")
    /\ appealIds /= <<>>
    /\ posts /= <<>>

\* C11: every request handled, well-formed or not, has been answered with one
\* response of the shape {success, data?, error?}: a failure carries
\* success:false and an error string, and no request is left without response
\* because an exception left the listener
C11_OneStructuredResponse ==
    lastRequest /= NoRequest
        => /\ lastResponse /= NoResponse
           /\ lastResponse.success \in BOOLEAN
           /\ lastResponse.success => lastResponse.error = Undefined
           /\ ~ lastResponse.success
                 => /\ lastResponse.error /= Undefined
                    /\ lastResponse.data = <<>>

C13_IncomingWithoutDialogId ==
    /\ []((/\ lastRequest.action = "incomingMessageDetected"
           /\ ~ (lastRequest.hasData /\ Truthy(lastRequest.data.dialogId)))
             => /\ ~ lastResponse.success
                /\ lastResponse.error = "No dialogId provided for incoming message"
                /\ lastResponse.data = <<>>)
    /\ [][(/\ clock' = clock + 1
           /\ lastRequest'.action = "incomingMessageDetected"
           /\ ~ (lastRequest'.hasData /\ Truthy(lastRequest'.data.dialogId)))
             => posts' = posts]_vars

\* C13: an incomingMessageDetected with an empty dialogId was refused after
\* one with a dialogId had been accepted
C13_Witness ==
    /\ lastRequest.action = "incomingMessageDetected"
    /\ lastRequest.hasData
    /\ lastRequest.data.dialogId = ""
    /\ ~ lastResponse.success
    /\ Len(posts) = 1

\* C14: a save that carries data is answered with success:true whatever
\* becomes of its write, and a record with an id whose write has failed is in the
\* snapshot of every getData handled later by the same worker, unless a
\* clearData was handled in between
C14_UnsavedStaysVisible ==
    /\ []((lastRequest.action \in {"saveAppealId", "saveDialogId"} /\ lastRequest.hasData)
             => lastResponse = Success)
    /\ [][(clock' = clock + 1 /\ lastRequest'.action = "getData")
             => \A w \in failedWrites :
                    /\ (w.key = "appealIds" /\ Truthy(w.id))
                          => HasAppeal(lastResponse'.data[1].appealIds, w.id)
                    /\ (w.key = "dialogIds" /\ Truthy(w.id))
                          => HasDialog(lastResponse'.data[1].dialogIds, w.id)]_vars

\* the url addresses the endpoint the auto-reply is posted to
IsAutoReplyEndpoint(url) ==
    /\ url.origin \in {<<>>, OmnichatOrigin}
    /\ url.path = EndpointPath

\* the body has non-empty text, in text or in message.text
HasTextContent(body) ==
    \/ Truthy(body.text)
    \/ body.message.kind = "object" /\ Truthy(body.message.text)

\* the author the body names: its author field, else that of its message
AuthorOf(body) ==
    IF Truthy(body.author) THEN body.author
    ELSE IF body.message.kind = "object" THEN body.message.author
    ELSE Undefined

\* the body's dialogId, dialog_id when dialogId is absent
DialogIdOf(body) == IF Truthy(body.dialogId) THEN body.dialogId ELSE body.dialog_id

\* C15: for a url and a body, the rule returns the body's dialogId (dialog_id
\* when dialogId is absent) if the url is not the auto-reply endpoint, the
\* body has text, its author is not 'agent' and it has a dialog id; it returns
\* null in every other case
C15_ClassificationRule ==
    (analysis.called /\ fetched.url.defined)
        => analysis.result =
               IF /\ ~ IsAutoReplyEndpoint(fetched.url)
                  /\ HasTextContent(fetched.body)
                  /\ AuthorOf(fetched.body) /= "agent"
                  /\ Truthy(DialogIdOf(fetched.body))
               THEN DialogIdOf(fetched.body)
               ELSE Null

\* C16: the rule never throws; it returns null for a null body, for a body
\* that is no object, for a body without text whose message is no object, and
\* for a missing url; and the scanner sends an incomingMessageDetected only
\* with the dialog id the rule returned
C16_FailsClosed ==
    /\ analysis.result /= Thrown
    /\ (/\ analysis.called
        /\ \/ fetched.body.kind \in {"null", "primitive"}
           \/ ~ fetched.url.defined
           \/ /\ fetched.body.message.kind \in {"null", "primitive"}
              /\ ~ Truthy(fetched.body.text))
          => analysis.result = Null
    /\ \A i \in DOMAIN outbox :
          outbox[i].action = "incomingMessageDetected"
              => /\ analysis.called
                 /\ Truthy(analysis.result)
                 /\ outbox[i].data.dialogId = analysis.result

\* C16: the rule was applied to a null body and a url that is not the
\* endpoint, where reading data.text throws
C16_Witness ==
    /\ fetched.by = "analyze"
    /\ fetched.body.kind = "null"
    /\ fetched.url.defined
    /\ ~ includes(urlToString(fetched.url), "send-agent-message")
    /\ analysis = [called |-> TRUE, result |-> Null]

LoadOutstanding == \E i \in DOMAIN storageOps : storageOps[i].op = "get"

\* C17: after every start the worker becomes READY, by the callback of one
\* load: a worker that is not READY has its load outstanding, and a worker
\* that is READY has none, so that no load overwrites its collections again
C17_ReadyOncePerStart ==
    /\ ~ ready => LoadOutstanding
    /\ ready => ~ LoadOutstanding

PostSettles ==
    \E i \in DOMAIN posts :
        /\ posts[i].status = "pending"
        /\ i \in DOMAIN posts'
        /\ posts'[i].status /= "pending"

\* C18: a step in which a POST settles, with success, an http error or a
\* network error, changes neither collection, nor storage, nor the storage
\* calls issued, nor the last response, nor the messages and POSTs issued
C18_PostCompletionInert ==
    [][PostSettles
          => /\ UNCHANGED <<appealIds, dialogIds, storage, storageOps>>
             /\ UNCHANGED <<lastRequest, lastResponse, outbox>>
             /\ Len(posts') = Len(posts)
             /\ \A j \in DOMAIN posts :
                    /\ posts'[j].body = posts[j].body
                    /\ posts'[j].url = posts[j].url]_vars

\* C18: the POST for a dialog the collection holds has failed
C18_Witness ==
    \E i \in DOMAIN posts :
        /\ posts[i].status \in {"httpError", "networkError"}
        /\ HasDialog(dialogIds, posts[i].body.dialogId)

\* C19: while a POST is pending, and as long as the model delivers messages
\* at all, a request of every kind can be handled, and the request handled
\* last has its response
C19_PostsNeverBlock ==
    /\ ((\E i \in DOMAIN posts : posts[i].status = "pending")
           /\ clock + starts <= MaxEvents)
          => /\ ENABLED SaveAppealIdRequest
             /\ ENABLED SaveDialogIdRequest
             /\ ENABLED IncomingMessageRequest
             /\ ENABLED GetDataRequest
             /\ ENABLED ClearDataRequest
             /\ ENABLED UnknownRequest
    /\ lastRequest /= NoRequest => lastResponse /= NoResponse

\* C19: a getData was answered while a POST issued before it is pending
C19_Witness ==
    /\ lastRequest.action = "getData"
    /\ lastResponse.success
    /\ \E i \in DOMAIN posts : posts[i].status = "pending"

\* C20: handling a request that appends a record issues exactly one storage
\* call, the write of the whole collection, the new record included, under
\* that collection's key; a clearData issues the remove; every other request
\* issues no storage call
C20_OneWritePerAppend ==
    [][clock' = clock + 1
          => IF Len(appealIds') = Len(appealIds) + 1
             THEN /\ appealIds'[Len(appealIds')].appealId = lastRequest'.data.appealId
                  /\ storageOps' = Append(storageOps, SetOp("appealIds", appealIds'))
             ELSE IF Len(dialogIds') = Len(dialogIds) + 1
             THEN /\ dialogIds'[Len(dialogIds')].dialogId = lastRequest'.data.dialogId
                  /\ storageOps' = Append(storageOps, SetOp("dialogIds", dialogIds'))
             ELSE IF lastRequest'.action = "clearData"
             THEN storageOps' = Append(storageOps, RemoveOp)
             ELSE storageOps' = storageOps]_vars

\* C20: the write of a collection of two records is outstanding, and the
\* request handled last found its id already there
C20_Witness ==
    /\ \E i \in DOMAIN storageOps :
          /\ storageOps[i].op = "set"
          /\ storageOps[i].key = "dialogIds"
          /\ Len(storageOps[i].value) = 2
          /\ storageOps[i].value[2].timestamp < clock - 1
    /\ lastRequest.action = "saveDialogId"
    /\ lastRequest.hasData
    /\ Len(storageOps) = 1

\* C21: once a clearData was handled, no save was accepted after it and every
\* storage call has completed, storage holds neither collection and both
\* collections are empty in memory
C21_ClearWinsInStorage ==
    (/\ clearedSinceStart
     /\ expectedAppeals = <<>>
     /\ expectedDialogs = <<>>
     /\ storageOps = <<>>)
        => /\ storage = [appealIds |-> Absent, dialogIds |-> Absent]
           /\ appealIds = <<>>
           /\ dialogIds = <<>>

\* C22: whenever no storage call is outstanding and no write has failed, what
\* storage holds for each collection is the collection in memory, an absent
\* key counting as the empty collection
C22_DurableEqualsMemory ==
    (storageOps = <<>> /\ failedWrites = {})
        => /\ storage.appealIds.value = appealIds
           /\ storage.dialogIds.value = dialogIds

WriteCompletes ==
    /\ storageOps /= <<>>
    /\ Head(storageOps).op = "set"
    /\ storageOps' = Tail(storageOps)

\* C23: a step in which the write issued for a record with an id completes
\* leaves in storage, for each collection, every record that was stored before
C23_WriteNeverDiscards ==
    [][(WriteCompletes /\ Truthy(NewRecordOf(Head(storageOps)).id))
          => \A k \in {"appealIds", "dialogIds"} :
                 \A i \in DOMAIN storage[k].value :
                     \E j \in DOMAIN storage'[k].value :
                         storage'[k].value[j] = storage[k].value[i]]_vars

\* the storage calls a step has issued all name the key
IssuesOnly(key) ==
    /\ Len(storageOps') >= Len(storageOps)
    /\ SubSeq(storageOps', 1, Len(storageOps)) = storageOps
    /\ \A i \in DOMAIN storageOps' :
          i > Len(storageOps) => storageOps'[i] = SetOp(key, storageOps'[i].value)

\* C24: handling a saveAppealId leaves dialogIds alone and issues storage
\* calls for the key appealIds only, and likewise for saveDialogId; handling a
\* getData, an incomingMessageDetected or a refused request leaves both
\* collections and the storage calls issued unchanged; handling a request
\* never changes storage itself, and a write that completes changes only the
\* key it names
C24_FrameOfSaves ==
    /\ [][clock' = clock + 1
             => /\ storage' = storage
                /\ lastRequest'.action = "saveAppealId"
                      => dialogIds' = dialogIds /\ IssuesOnly("appealIds")
                /\ lastRequest'.action = "saveDialogId"
                      => appealIds' = appealIds /\ IssuesOnly("dialogIds")
                /\ (\/ lastRequest'.action \in {"getData", "incomingMessageDetected"}
                    \/ ~ lastResponse'.success)
                      => UNCHANGED <<appealIds, dialogIds, storageOps>>]_vars
    /\ [][WriteCompletes
             => \A k \in {"appealIds", "dialogIds"} :
                    k /= Head(storageOps).key => storage'[k] = storage[k]]_vars

\* C24: a saveAppealId has added a record and its write has completed while
\* dialogIds holds a record, in memory and in storage
C24_Witness ==
    /\ lastRequest.action = "saveAppealId"
    /\ HasAppeal(appealIds, "123")
    /\ HasAppeal(storage.appealIds.value, "123")
    /\ dialogIds /= <<>>
    /\ storage.dialogIds.value = dialogIds
    /\ storageOps = <<>>

\* every incomingMessageDetected the scanner has sent for a response comes
\* after a saveDialogId it has sent for the same dialog id
ScannerSavesFirst ==
    \A i \in DOMAIN outbox :
        outbox[i].action = "incomingMessageDetected"
            => \E j \in 1 .. (i - 1) :
                   /\ outbox[j].action = "saveDialogId"
                   /\ outbox[j].data.dialogId = outbox[i].data.dialogId

\* C25: the scanner sends saveDialogId(d) before incomingMessageDetected(d);
\* and when the worker handles an accepted saveDialogId(d) and, as its next
\* request, an incomingMessageDetected(d), the auto-reply is issued while
\* dialogIds holds a record for d
C25_SaveBeforeIncoming ==
    /\ []ScannerSavesFirst
    /\ [][(/\ lastRequest.action = "saveDialogId"
           /\ lastRequest.hasData
           /\ Truthy(lastRequest.data.dialogId)
           /\ lastResponse.success
           /\ clock' = clock + 1
           /\ lastRequest'.action = "incomingMessageDetected"
           /\ lastRequest'.data.dialogId = lastRequest.data.dialogId
           /\ Len(posts') = Len(posts) + 1)
             => HasDialog(dialogIds', lastRequest.data.dialogId)]_vars

\* the url is one of the third-party chat domain; a relative url is resolved
\* against the page, which is of that domain
FromChatDomain(url) == url.defined /\ url.origin \in {<<>>, OmnichatOrigin}

IncomingSent ==
    {i \in DOMAIN outbox : outbox[i].action = "incomingMessageDetected"}

\* C26: the scanner sends incomingMessageDetected only for a response fetched
\* from the third-party chat domain for which the classification rule
\* returned a dialog id, with that id, and at most once per response; never
\* for a response from the auto-reply endpoint or for a message of an agent
C26_IncomingOnlyFromChat ==
    fetched.by = "fetch" =>
        /\ Cardinality(IncomingSent) <= 1
        /\ \A i \in IncomingSent :
               /\ FromChatDomain(fetched.url)
               /\ analysis.called
               /\ Truthy(analysis.result)
               /\ outbox[i].data.dialogId = analysis.result
               /\ ~ IsAutoReplyEndpoint(fetched.url)
               /\ AuthorOf(fetched.body) /= "agent"

\* the messages that forward the ids present in a call of fetch and in the
\* response to it
IdsPresent(call) ==
    LET url == call.url
        body == call.options.body
        data == call.body
        appeal(id) == IF Truthy(id) THEN {foundAppealId(id, url)} ELSE {}
        dialog(id) == IF Truthy(id) THEN {foundDialogId(id, url)} ELSE {}
    IN  appeal(searchParamsGet(url, "appealId"))
        \cup dialog(searchParamsGet(url, "dialogId"))
        \cup (IF call.options.present /\ body.kind = "object"
              THEN appeal(Or(body.appealId, body.appeal_id))
                   \cup dialog(Or(body.dialogId, body.dialog_id))
              ELSE {})
        \cup (IF data.kind = "object"
              THEN dialog(Or(data.dialogId, data.dialog_id))
              ELSE {})

\* C27: for every request and response on the third-party domain, each appeal
\* id and dialog id in the query parameters of the url or in a JSON body is
\* forwarded as saveAppealId or saveDialogId with that id and the request
\* url, whatever the method and whether or not options were passed
C27_EveryIdForwarded ==
    (fetched.by = "fetch" /\ FromChatDomain(fetched.url)) =>
        \A m \in IdsPresent(fetched) : \E i \in DOMAIN outbox : outbox[i] = m

\* the access time the cache keeps for a key
AccessTimeOf(key) ==
    accessTimes[CHOOSE i \in DOMAIN accessTimes : accessTimes[i].key = key].time

\* C28: the text cache holds at most maxCacheSize entries after any sequence
\* of store, get, preload and clear; a store that finds the cache full first
\* evicts the entry accessed longest ago, also when all entries were accessed
\* at the same clock value; the key sets of cache and accessTimes are equal
C28_CacheBounded ==
    /\ [](Cardinality(cache) <= maxCacheSize /\ cache = MapKeys(accessTimes))
    /\ [][(cacheOp'.op = "store" /\ Cardinality(cache) >= maxCacheSize)
             => \E key \in cache :
                    /\ \A other \in cache : AccessTimeOf(key) <= AccessTimeOf(other)
                    /\ key \notin cache' \/ key = cacheOp'.key]_vars

\* C29: when a line's animation reaches its last character, the final state
\* (isComplete true, the full text of the line) is delivered to onUpdate
\* before onComplete fires; and no update queued in pendingUpdates is dropped
\* when the batch-update timer is stopped
C29_FinalStateDelivered ==
    /\ [][ran'.kind = "onComplete"
            => \E g \in ran'.gens : <<g, ran'.lineIndex>> \in delivered]_vars
    /\ [][(renderer.batchUpdateTimer.on /\ ~ renderer'.batchUpdateTimer.on)
            => renderer'.pendingUpdates = <<>>]_vars

\* a callback or timer of an animation chain ran, not a call of the hook's user
CallbackRan(step) == step.kind \in {"frame", "onUpdate", "onComplete", "animateNextLine"}

\* C30: after skipAnimation, and after loadScene of a new scene, the animation
\* chain of the previous scene is dead: none of its callbacks and timers
\* changes the hook's state, and after a skip isTyping stays false,
\* showChoices stays true and renderedDialogue stays the complete text
C30_PreviousChainDead ==
    /\ [](skipped => /\ ~ state.isTyping
                     /\ state.showChoices
                     /\ state.renderedDialogue = completeDialogue(scene))
    /\ [][(CallbackRan(ran') /\ (skipped \/ \A g \in ran'.gens : g < loadGen))
            => state' = state]_vars

====
